---- MODULE Spec2Model ----
(***************************************************************************)
(* A model of src/research_pipeline.py: the two source connectors          *)
(* (ResearchScraper.search_plos / search_arxiv), the result store          *)
(* (ResearchScraper.save_results), the three content stages                *)
(* (ContentProcessor.summarize_text / generate_audio / generate_video) and *)
(* the orchestrator ResearchPipeline.process_query.                        *)
(*                                                                         *)
(* Python strings are sequences of tokens: a token is either the blank     *)
(* " " or a word, so "" is << >> and str.strip() removes leading and       *)
(* trailing blanks.  A JSON value keeps its runtime type in "kind".        *)
(* Optional[List] keeps None apart from the empty list.                    *)
(***************************************************************************)
EXTENDS Integers, Sequences, FiniteSets, TLC

\* ------------------------------------------------------------------ bounds
\* Most entries the PLOS response holds in a pipeline run; the arXiv response
\* holds one fewer at most.
MaxDocs == 2
\* Most entries of a response handed to a connector on its own.
MaxEntries == 2
\* The clock int(time.time()), in seconds since the run began, runs over
\* 0..MaxTime.
MaxTime == 1
\* Most collaborator failures (summarizer, renderers, store write) per run.
MaxFaults == 1

\* ------------------------------------------------------------ Python values
EmptyStr == << >>

Str(t) == [kind |-> "str", text |-> t, items |-> << >>]
\* A JSON array of strings.
List(l) == [kind |-> "list", text |-> EmptyStr, items |-> l]
\* JSON null.
Null == [kind |-> "null", text |-> EmptyStr, items |-> << >>]

NoTitle == Str(<<"No", " ", "title", " ", "available">>)
NoAbstract == Str(<<"No", " ", "abstract", " ", "available">>)

None == [isNone |-> TRUE, val |-> << >>]
Some(l) == [isNone |-> FALSE, val |-> l]

Paper(t, a, s) == [title |-> t, abstract |-> a, source |-> s]

\* str.strip(): drop the leading and the trailing blanks.
RECURSIVE lstrip(_)
lstrip(t) == IF t # << >> /\ Head(t) = " " THEN lstrip(Tail(t)) ELSE t

RECURSIVE rstrip(_)
rstrip(t) ==
    IF t # << >> /\ t[Len(t)] = " " THEN rstrip(SubSeq(t, 1, Len(t) - 1)) ELSE t

strip(t) == rstrip(lstrip(t))

\* str(v) as an f-string renders it: the text of a string, the repr otherwise.
Format(v) ==
    CASE v.kind = "str" -> v.text
      [] v.kind = "null" -> <<"None">>
      [] OTHER -> <<"[">> \o (IF v.items = << >> THEN << >> ELSE v.items[1]) \o <<"]">>

\* ------------------------------------------------------- connector responses
\* One record of a PLOS response's "docs": a key may be missing, and a present
\* key holds any JSON value.
PlosArticle(ht, t, ha, a) ==
    [has_title |-> ht, title |-> t, has_abstract |-> ha, abstract |-> a]

\* What Element.find(...) gives for an Atom child: not found (None), found
\* with .text None (an empty element), or found with a text.
NotFound == [found |-> FALSE, has_text |-> FALSE, text |-> EmptyStr]
NoText == [found |-> TRUE, has_text |-> FALSE, text |-> EmptyStr]
Elem(t) == [found |-> TRUE, has_text |-> TRUE, text |-> t]

ArxivEntry(t, s) == [title |-> t, summary |-> s]

\* A connector's HTTP exchange: "error" is any fault of requests.get,
\* raise_for_status, response.json() or ET.fromstring.
ErrorResponse == [status |-> "error", docs |-> << >>]
OkResponse(docs) == [status |-> "ok", docs |-> docs]

SeqsUpTo(S, n) == UNION {[1..k -> S] : k \in 0..n}

Responses(entries, n) == {ErrorResponse} \cup {OkResponse(d) : d \in SeqsUpTo(entries, n)}

PlosTitles ==
    {Str(EmptyStr), Str(<<"T1">>), List(<< >>), List(<< <<"T1">> >>), Null}

PlosAbstracts == {Str(EmptyStr), Str(<<"A1">>), List(<< <<"A1">> >>)}

PlosArticles ==
    {PlosArticle(TRUE, t, TRUE, a) : t \in PlosTitles, a \in PlosAbstracts}
        \cup {PlosArticle(FALSE, Null, TRUE, a) : a \in PlosAbstracts}
        \cup {PlosArticle(TRUE, t, FALSE, Null) : t \in PlosTitles}
        \cup {PlosArticle(FALSE, Null, FALSE, Null)}

ArxivElems == {NotFound, NoText, Elem(<<" ">>), Elem(<<" ", "T3", " ">>)}

ArxivEntries == {ArxivEntry(t, s) : t \in ArxivElems, s \in ArxivElems}

\* The well-formed records the pipeline runs draw from.
GoodPlosArticles ==
    {PlosArticle(TRUE, Str(<<"T1">>), TRUE, Str(<<"A1">>)),
     PlosArticle(TRUE, Str(<<"T2">>), TRUE, Str(<<"A2">>))}

GoodArxivEntries ==
    {ArxivEntry(Elem(<<" ", "T3", " ">>), Elem(<<"A3">>)),
     ArxivEntry(Elem(<<"T4">>), Elem(<<"A4", " ">>))}

\* ------------------------------------------------------------ ResearchScraper
\* Lines 43-46: the title and abstract one PLOS record yields.
PlosTitle(article) ==
    LET title == IF article.has_title THEN article.title ELSE NoTitle
    IN  IF title.kind = "list" THEN Str(title.items[1]) ELSE title

PlosAbstract(article) ==
    IF article.has_abstract THEN article.abstract ELSE NoAbstract

\* title[0] of an empty list raises IndexError.
PlosRaises(article) ==
    /\ article.has_title
    /\ article.title.kind = "list"
    /\ article.title.items = << >>

search_plos(response) ==
    IF response.status # "ok" THEN None
    ELSE IF \E i \in 1..Len(response.docs) : PlosRaises(response.docs[i]) THEN None
    ELSE Some([i \in 1..Len(response.docs) |->
                 Paper(PlosTitle(response.docs[i]), PlosAbstract(response.docs[i]), "plos")])

\* entry.find(...).text.strip() raises AttributeError on None.
ArxivRaises(entry) ==
    \/ ~entry.title.found \/ ~entry.title.has_text
    \/ ~entry.summary.found \/ ~entry.summary.has_text

search_arxiv(response) ==
    IF response.status # "ok" THEN None
    ELSE IF \E i \in 1..Len(response.docs) : ArxivRaises(response.docs[i]) THEN None
    ELSE Some([i \in 1..Len(response.docs) |->
                 Paper(Str(strip(response.docs[i].title.text)),
                       Str(strip(response.docs[i].summary.text)), "arxiv")])

\* `x or []`: None and the empty list both give the empty list.
OrEmpty(ret) == IF ret.isNone \/ ret.val = << >> THEN << >> ELSE ret.val

\* Line 86 stands outside the try of lines 92-97: a fault of os.makedirs leaves
\* save_results as an exception, a fault of open/json.dump is caught and logged.
save_results_raises(outcome) == outcome = "makedirs_error"

\* Lines 85-97: the file save_results leaves for the source (None when none is
\* written).
save_results(data, source, outcome) ==
    IF outcome = "ok"
    THEN Some([i \in 1..Len(data) |-> [title |-> data[i].title, abstract |-> data[i].abstract]])
    ELSE None

SaveOutcomes == {"ok", "makedirs_error", "write_error"}

\* ----------------------------------------------------------- ContentProcessor
Outcomes == {"ok", "fail"}

\* The summarization model's output for a text: some non-empty text of its own.
Summarizer(text) == <<"summary", "of">> \o SubSeq(text, 1, 1)

\* summarize_text falling back to its input where line 111 returns "".
summarize_text_fallback(text, outcome) ==
    IF outcome = "ok" THEN Summarizer(text) ELSE text

\* Lines 104-111.
summarize_text(text, outcome) ==
    IF outcome = "ok" THEN Summarizer(text) ELSE EmptyStr

\* Lines 113-121.
generate_audio(text, output_path, outcome) ==
    IF outcome = "ok" THEN output_path ELSE EmptyStr

\* generate_video returning output_path where line 139 returns "".
generate_video_no_sentinel(text, audio_path, output_path, outcome) == output_path

\* Lines 123-139.
generate_video(text, audio_path, output_path, outcome) ==
    IF outcome = "ok" THEN output_path ELSE EmptyStr

\* ----------------------------------------------------------- ResearchPipeline
\* Line 169.
FullText(paper) == Format(paper.title) \o <<"\n\n">> \o Format(paper.abstract)

\* Line 176.
AudioPath(source, timestamp) == <<"output/audio/", source, "_", timestamp, ".mp3">>

\* Line 180.
VideoPath(source, timestamp) == <<"output/video/", source, "_", timestamp, ".mp4">>

\* Line 181 handing over audio_file, the value generate_audio returned.
VideoAudioArg_returned(audio_path, audio_file) == audio_file

\* Line 181: the audio argument handed to generate_video.
VideoAudioArg(audio_path, audio_file) == audio_path

\* Line 164 with the operands exchanged.
Merge_swapped(plos, arxiv) == arxiv \o plos

\* Line 164.
Merge(plos, arxiv) == plos \o arxiv

\* Lines 183-189.
ProcessedPaper(paper, s, audio, video) ==
    [title |-> paper.title, source |-> paper.source, summary |-> s,
     audio_path |-> audio, video_path |-> video]

\* Lines 191-194.
Report(papers, processed) ==
    [form |-> "report", total_papers |-> Len(papers), processed_papers |-> processed]

\* The handler of line 196 raising again instead of returning.
ErrorReport_reraise(e) == [form |-> "raised", error |-> e]

\* Lines 196-198.
ErrorReport(e) == [form |-> "error", error |-> e]

NoReport == [form |-> "none"]

VARIABLES
    pc,               \* where process_query stands
    now,              \* int(time.time())
    faults,           \* collaborator failures so far in the run
    plos_ret,         \* what search_plos returned
    arxiv_ret,        \* what search_arxiv returned
    plos_papers,
    arxiv_papers,
    saves,            \* the save_results calls, in order
    all_papers,
    processed_papers,
    idx,              \* position of `paper` in all_papers
    summary,
    timestamp,
    audio_file,
    calls,            \* the ContentProcessor calls, in order
    report            \* what process_query returned

vars ==
    <<pc, now, faults, plos_ret, arxiv_ret, plos_papers, arxiv_papers, saves,
      all_papers, processed_papers, idx, summary, timestamp, audio_file, calls,
      report>>

Call(fn, doc, text, audio_path, output_path, outcome, ret) ==
    [fn |-> fn, doc |-> doc, text |-> text, audio_path |-> audio_path,
     output_path |-> output_path, outcome |-> outcome, ret |-> ret]

Init ==
    /\ pc = "makedirs"
    /\ now = 0
    /\ faults = 0
    /\ plos_ret = None
    /\ arxiv_ret = None
    /\ plos_papers = << >>
    /\ arxiv_papers = << >>
    /\ saves = << >>
    /\ all_papers = << >>
    /\ processed_papers = << >>
    /\ idx = 0
    /\ summary = EmptyStr
    /\ timestamp = 0
    /\ audio_file = EmptyStr
    /\ calls = << >>
    /\ report = NoReport

\* May this step's collaborator fail?
MayFail(outcome) == outcome = "ok" \/ faults < MaxFaults

Charge(outcome) == IF outcome = "ok" THEN faults ELSE faults + 1

\* Lines 151-152: a fault of os.makedirs is caught at line 196.
MakeDirs ==
    /\ pc = "makedirs"
    /\ \E outcome \in Outcomes :
         IF outcome = "ok"
         THEN pc' = "search_plos" /\ report' = report
         ELSE pc' = "done" /\ report' = ErrorReport("makedirs output")
    /\ UNCHANGED <<now, faults, plos_ret, arxiv_ret, plos_papers, arxiv_papers, saves,
                   all_papers, processed_papers, idx, summary, timestamp, audio_file,
                   calls>>

\* Line 155.
SearchPlos ==
    /\ pc = "search_plos"
    /\ \E response \in Responses(GoodPlosArticles, MaxDocs) :
         /\ plos_ret' = search_plos(response)
         /\ plos_papers' = OrEmpty(search_plos(response))
    /\ pc' = "search_arxiv"
    /\ UNCHANGED <<now, faults, arxiv_ret, arxiv_papers, saves, all_papers,
                   processed_papers, idx, summary, timestamp, audio_file, calls, report>>

\* Line 156.
SearchArxiv ==
    /\ pc = "search_arxiv"
    /\ \E response \in Responses(GoodArxivEntries, MaxDocs - 1) :
         /\ arxiv_ret' = search_arxiv(response)
         /\ arxiv_papers' = OrEmpty(search_arxiv(response))
    /\ pc' = "save_plos"
    /\ UNCHANGED <<now, faults, plos_ret, plos_papers, saves, all_papers,
                   processed_papers, idx, summary, timestamp, audio_file, calls, report>>

\* Lines 159-162: one `if papers: save_results(papers, source)`.
Save(at, papers, source, next) ==
    /\ pc = at
    /\ IF papers = << >>
       THEN pc' = next /\ UNCHANGED <<saves, faults, report>>
       ELSE \E outcome \in SaveOutcomes :
              /\ outcome = "write_error" => faults < MaxFaults
              /\ faults' = IF outcome = "write_error" THEN faults + 1 ELSE faults
              /\ saves' = Append(saves, [source |-> source, data |-> papers,
                                        outcome |-> outcome,
                                        file |-> save_results(papers, source, outcome)])
              /\ IF save_results_raises(outcome)
                 THEN pc' = "done" /\ report' = ErrorReport("makedirs uploads")
                 ELSE pc' = next /\ report' = report
    /\ UNCHANGED <<now, plos_ret, arxiv_ret, plos_papers, arxiv_papers, all_papers,
                   processed_papers, idx, summary, timestamp, audio_file, calls>>

SavePlos == Save("save_plos", plos_papers, "plos", "save_arxiv")

SaveArxiv == Save("save_arxiv", arxiv_papers, "arxiv", "merge")

\* Lines 164-165.
MergePapers ==
    /\ pc = "merge"
    /\ all_papers' = Merge(plos_papers, arxiv_papers)
    /\ processed_papers' = << >>
    /\ idx' = 1
    /\ pc' = "summarize"
    /\ UNCHANGED <<now, faults, plos_ret, arxiv_ret, plos_papers, arxiv_papers, saves,
                   summary, timestamp, audio_file, calls, report>>

\* Lines 167-172: the loop takes the next paper and summarizes it.
Summarize ==
    /\ pc = "summarize"
    /\ idx <= Len(all_papers)
    /\ \E outcome \in Outcomes :
         /\ MayFail(outcome)
         /\ faults' = Charge(outcome)
         /\ LET full_text == FullText(all_papers[idx])
                s == summarize_text(full_text, outcome)
            IN  /\ summary' = s
                /\ calls' = Append(calls, Call("summarize_text", idx, full_text,
                                               EmptyStr, EmptyStr, outcome, s))
    /\ pc' = "audio"
    /\ UNCHANGED <<now, plos_ret, arxiv_ret, plos_papers, arxiv_papers, saves,
                   all_papers, processed_papers, idx, timestamp, audio_file, report>>

\* The clock is read at line 175 only: it advances before that read.
Tick ==
    /\ pc = "audio"
    /\ now < MaxTime
    /\ now' = now + 1
    /\ UNCHANGED <<pc, faults, plos_ret, arxiv_ret, plos_papers, arxiv_papers, saves,
                   all_papers, processed_papers, idx, summary, timestamp, audio_file,
                   calls, report>>

\* Lines 175-177.
Audio ==
    /\ pc = "audio"
    /\ timestamp' = now
    /\ \E outcome \in Outcomes :
         /\ MayFail(outcome)
         /\ faults' = Charge(outcome)
         /\ LET audio_path == AudioPath(all_papers[idx].source, now)
                f == generate_audio(summary, audio_path, outcome)
            IN  /\ audio_file' = f
                /\ calls' = Append(calls, Call("generate_audio", idx, summary,
                                               EmptyStr, audio_path, outcome, f))
    /\ pc' = "video"
    /\ UNCHANGED <<now, plos_ret, arxiv_ret, plos_papers, arxiv_papers, saves,
                   all_papers, processed_papers, idx, summary, report>>

\* Lines 180-189.
Video ==
    /\ pc = "video"
    /\ \E outcome \in Outcomes :
         /\ MayFail(outcome)
         /\ faults' = Charge(outcome)
         /\ LET paper == all_papers[idx]
                audio_path == AudioPath(paper.source, timestamp)
                video_path == VideoPath(paper.source, timestamp)
                arg == VideoAudioArg(audio_path, audio_file)
                video_file == generate_video(summary, arg, video_path, outcome)
            IN  /\ calls' = Append(calls, Call("generate_video", idx, summary, arg,
                                               video_path, outcome, video_file))
                /\ processed_papers' =
                       Append(processed_papers,
                              ProcessedPaper(paper, summary, audio_file, video_file))
    /\ idx' = idx + 1
    /\ pc' = "summarize"
    /\ UNCHANGED <<now, plos_ret, arxiv_ret, plos_papers, arxiv_papers, saves,
                   all_papers, summary, timestamp, audio_file, report>>

\* Lines 191-194.
Return ==
    /\ pc = "summarize"
    /\ idx > Len(all_papers)
    /\ report' = Report(all_papers, processed_papers)
    /\ pc' = "done"
    /\ UNCHANGED <<now, faults, plos_ret, arxiv_ret, plos_papers, arxiv_papers, saves,
                   all_papers, processed_papers, idx, summary, timestamp, audio_file,
                   calls>>

Next ==
    \/ MakeDirs
    \/ SearchPlos
    \/ SearchArxiv
    \/ SavePlos
    \/ SaveArxiv
    \/ MergePapers
    \/ Summarize
    \/ Tick
    \/ Audio
    \/ Video
    \/ Return

Spec == Init /\ [][Next]_vars

\* -------------------------------------------------- the connectors on their own
\* A connector applied once to any response of the bounded set.
InitConn ==
    /\ pc = "connector"
    /\ now = 0
    /\ faults = 0
    /\ plos_ret = None
    /\ arxiv_ret = None
    /\ plos_papers = << >>
    /\ arxiv_papers = << >>
    /\ saves = << >>
    /\ all_papers = << >>
    /\ processed_papers = << >>
    /\ idx = 0
    /\ summary = EmptyStr
    /\ timestamp = 0
    /\ audio_file = EmptyStr
    /\ calls = << >>
    /\ report = NoReport

ConnPlos ==
    /\ pc = "connector"
    /\ \E response \in Responses(PlosArticles, MaxEntries) :
         /\ plos_ret' = search_plos(response)
         /\ plos_papers' = OrEmpty(search_plos(response))
    /\ pc' = "connected"
    /\ UNCHANGED <<now, faults, arxiv_ret, arxiv_papers, saves, all_papers,
                   processed_papers, idx, summary, timestamp, audio_file, calls, report>>

ConnArxiv ==
    /\ pc = "connector"
    /\ \E response \in Responses(ArxivEntries, MaxEntries) :
         /\ arxiv_ret' = search_arxiv(response)
         /\ arxiv_papers' = OrEmpty(search_arxiv(response))
    /\ pc' = "connected"
    /\ UNCHANGED <<now, faults, plos_ret, plos_papers, saves, all_papers,
                   processed_papers, idx, summary, timestamp, audio_file, calls, report>>

NextConn ==
    \/ ConnPlos
    \/ ConnArxiv

SpecConn == InitConn /\ [][NextConn]_vars

\* ------------------------------------------------------------------- claims
\* The positions of the calls made for document d: three per document.
SummarizeCall(d) == calls[3 * d - 2]
AudioCall(d) == calls[3 * d - 1]
VideoCall(d) == calls[3 * d]

\* process_query stands between two documents of the loop, or has returned.
BetweenPapers == pc \in {"summarize", "done"}

Returned == pc = "done"

NonEmptyStr(v) == v.kind = "str" /\ v.text # EmptyStr

SavesFor(source) == {k \in 1..Len(saves) : saves[k].source = source}

\* C1: within one run, any two distinct documents are given different audio
\* paths and different video paths, two documents of one source processed
\* within one clock second included.
C1_DistinctArtifactPaths ==
    \A c, d \in 1..Len(calls) :
        (c # d /\ calls[c].fn = calls[d].fn
              /\ calls[c].fn \in {"generate_audio", "generate_video"})
            => calls[c].output_path # calls[d].output_path

\* C2: an I/O failure inside save_results, the failure to create the storage
\* directory included, is caught inside save_results: the run still saves the
\* other source, processes every merged document and returns the
\* {total_papers, processed_papers} report.
C2_SaveFailureDoesNotAbort ==
    (Returned /\ \E k \in 1..Len(saves) : saves[k].outcome # "ok")
        => /\ report.form = "report"
           /\ Len(report.processed_papers) = Len(plos_papers) + Len(arxiv_papers)
           /\ plos_papers # << >> => SavesFor("plos") # {}
           /\ arxiv_papers # << >> => SavesFor("arxiv") # {}

\* C3: when one connector's search fails and the other returns n >= 1
\* documents, the report has no error, total_papers = n and exactly those n
\* documents are processed, whichever connector is the failing one.
C3_ConnectorIsolation ==
    LET Isolated(failed, papers) ==
            (failed.isNone /\ papers # << >>)
                => /\ report.form = "report"
                   /\ report.total_papers = Len(papers)
                   /\ Len(report.processed_papers) = Len(papers)
                   /\ \A i \in 1..Len(papers) :
                          /\ report.processed_papers[i].title = papers[i].title
                          /\ report.processed_papers[i].source = papers[i].source
    IN  Returned => Isolated(plos_ret, arxiv_papers) /\ Isolated(arxiv_ret, plos_papers)

\* C4: a document whose video rendering fails still stands at its position in
\* processed_papers with its summary and its audio path, and the empty string
\* as its video path; every document's audio and video paths are decided by
\* its own stages alone, and the loop processes every merged document.
C4_DocumentIsolation ==
    /\ \A d \in 1..Len(processed_papers) :
         /\ processed_papers[d].title = all_papers[d].title
         /\ processed_papers[d].summary = SummarizeCall(d).ret
         /\ \E t \in 0..MaxTime :
              /\ AudioCall(d).output_path = AudioPath(all_papers[d].source, t)
              /\ VideoCall(d).output_path = VideoPath(all_papers[d].source, t)
         /\ processed_papers[d].audio_path =
                IF AudioCall(d).outcome = "ok" THEN AudioCall(d).output_path ELSE EmptyStr
         /\ processed_papers[d].video_path =
                IF VideoCall(d).outcome = "ok" THEN VideoCall(d).output_path ELSE EmptyStr
    /\ (Returned /\ calls # << >>)
         => /\ report.form = "report"
            /\ Len(report.processed_papers) = Len(all_papers)
            /\ report.processed_papers = processed_papers

\* C4 happens: the video of document 2 of 3 failed, the run returned, and the
\* other two documents hold their own paths.
C4_Witness ==
    /\ Returned
    /\ Len(processed_papers) = 3
    /\ VideoCall(2).outcome = "fail"
    /\ processed_papers[2].video_path = EmptyStr
    /\ processed_papers[2].audio_path # EmptyStr
    /\ processed_papers[1].video_path # EmptyStr
    /\ processed_papers[3].video_path # EmptyStr

\* C5: every Paper a connector returns has a title and an abstract that are
\* non-empty strings.
C5_NonEmptyTitleAbstract ==
    \A ret \in {plos_ret, arxiv_ret} :
        \A i \in 1..Len(ret.val) :
            NonEmptyStr(ret.val[i].title) /\ NonEmptyStr(ret.val[i].abstract)

\* C6 as stated: generate_video follows generate_audio for every document and
\* is handed the value generate_audio returned, the empty string when audio
\* rendering failed.
C6_VideoGetsAudioResult ==
    \A d \in 1..Len(all_papers) :
        3 * d <= Len(calls)
            => /\ AudioCall(d).fn = "generate_audio"
               /\ VideoCall(d).fn = "generate_video"
               /\ VideoCall(d).audio_path = AudioCall(d).ret

\* C6 amended: generate_video follows generate_audio for every document,
\* whether or not audio rendering succeeded, and is handed the audio path
\* derived for the document, the one generate_audio was asked to write.
C6_VideoGetsDerivedAudioPath ==
    /\ \A d \in 1..Len(all_papers) :
         3 * d <= Len(calls)
            => /\ AudioCall(d).fn = "generate_audio"
               /\ VideoCall(d).fn = "generate_video"
               /\ AudioCall(d).doc = d /\ VideoCall(d).doc = d
               /\ VideoCall(d).audio_path = AudioCall(d).output_path
    /\ BetweenPapers => Len(calls) % 3 = 0

\* C6 happens: audio rendering failed for a document and its video was
\* rendered all the same.
C6_Witness ==
    \E d \in 1..Len(all_papers) :
        /\ 3 * d <= Len(calls)
        /\ AudioCall(d).outcome = "fail"
        /\ AudioCall(d).ret = EmptyStr
        /\ VideoCall(d).outcome = "ok"

\* C7: the merged sequence is the PLOS documents in arrival order followed by
\* the arXiv documents in arrival order, and a non-error report counts the
\* merged sequence and holds one processed document per merged document, at
\* the same position, with its title and source.
C7_MergeAndReportOrder ==
    LET P == plos_ret.val
        A == arxiv_ret.val
    IN  /\ pc \in {"summarize", "audio", "video"} \/ report.form = "report"
          => /\ Len(all_papers) = Len(P) + Len(A)
             /\ \A i \in 1..Len(P) : all_papers[i] = P[i]
             /\ \A i \in 1..Len(A) : all_papers[Len(P) + i] = A[i]
        /\ report.form = "report"
          => /\ report.total_papers = Len(all_papers)
             /\ Len(report.processed_papers) = Len(all_papers)
             /\ \A i \in 1..Len(all_papers) :
                    /\ report.processed_papers[i].title = all_papers[i].title
                    /\ report.processed_papers[i].source = all_papers[i].source

\* C7 happens: both connectors returned documents and the run reported them.
C7_Witness ==
    /\ report.form = "report"
    /\ Len(plos_ret.val) = 2
    /\ Len(arxiv_ret.val) = 1
    /\ report.total_papers = 3
    /\ report.processed_papers[1].title # report.processed_papers[2].title

\* C8: in a run, save_results is called at most once per source, and for a
\* source exactly when its search returned at least one document.
C8_SaveIffNonEmpty ==
    Returned
        => /\ Cardinality(SavesFor("plos")) = (IF OrEmpty(plos_ret) # << >> THEN 1 ELSE 0)
           /\ Cardinality(SavesFor("arxiv")) = (IF OrEmpty(arxiv_ret) # << >> THEN 1 ELSE 0)

\* C9: process_query always ends by returning the {total_papers,
\* processed_papers} form or the {error} form, and the {error} form only for a
\* fault of the orchestration steps (os.makedirs), never for a failure of a
\* connector, the summarizer or a renderer.
C9_AlwaysReturnsReport ==
    /\ Returned
         => /\ report.form \in {"report", "error"}
            /\ report.form = "error"
                 => /\ report.error \in {"makedirs output", "makedirs uploads"}
                    /\ calls = << >>
    /\ ~Returned => report = NoReport

\* C9 happens: a run in which a connector failed and a stage failed returned
\* the report form.
C9_Witness ==
    /\ Returned
    /\ report.form = "report"
    /\ plos_ret.isNone
    /\ \E k \in 1..Len(calls) : calls[k].outcome = "fail"

\* C10: when the summarizer fails for a document, its summary is the empty
\* string, generate_audio and then generate_video are still called for it with
\* the empty summary as text, and the document stands in processed_papers.
C10_EmptySummaryStillRendered ==
    \A k \in 1..Len(calls) :
        (calls[k].fn = "summarize_text" /\ calls[k].outcome = "fail")
            => /\ calls[k].ret = EmptyStr
               /\ k + 1 <= Len(calls)
                    => /\ calls[k + 1].fn = "generate_audio"
                       /\ calls[k + 1].doc = calls[k].doc
                       /\ calls[k + 1].text = EmptyStr
               /\ k + 2 <= Len(calls)
                    => /\ calls[k + 2].fn = "generate_video"
                       /\ calls[k + 2].doc = calls[k].doc
                       /\ calls[k + 2].text = EmptyStr
               /\ BetweenPapers
                    => /\ k + 2 <= Len(calls)
                       /\ Len(processed_papers) >= calls[k].doc
                       /\ processed_papers[calls[k].doc].summary = EmptyStr
               /\ Returned
                    => /\ report.form = "report"
                       /\ report.processed_papers[calls[k].doc].summary = EmptyStr

\* C10 happens: the summarizer failed for a document and the run returned.
C10_Witness ==
    /\ Returned
    /\ \E k \in 1..Len(calls) :
         /\ calls[k].fn = "summarize_text"
         /\ calls[k].outcome = "fail"
         /\ calls[k + 1].fn = "generate_audio"
         /\ calls[k + 2].fn = "generate_video"

====
